---- MODULE Spec2Model ----
(***************************************************************************)
(* Model of the irc-rs client (src/src/main.rs): the line parser           *)
(* IrcMessage::parse, the dispatcher handle_message with its numeric-reply *)
(* routine, the line sink send_message, and the connect / handshake /      *)
(* receive loop of main.                                                   *)
(*                                                                         *)
(* Text.  A string is a sequence of text units.  A unit is either one      *)
(* separator character (space, tab, CR, LF, ':' or '!') or an indivisible  *)
(* word of characters that are none of these ("PING", "001", "x").  Every  *)
(* string operation of the source that the model uses (trim,               *)
(* split_whitespace, starts_with(':'), find(" :"), split_at, split('!'),   *)
(* format!) cuts a string only at separator characters, so it is modelled  *)
(* unit by unit, exactly as the source does it character by character.     *)
(* Option<T> is a sequence of length at most one.                          *)
(***************************************************************************)
EXTENDS Integers, Sequences, FiniteSets, TLC

VARIABLES pc, config, stream, nread, input, parsed_message, response, console, wire

vars == <<pc, config, stream, nread, input, parsed_message, response, console, wire>>

None == <<>>

Some(v) == <<v>>

(***************************************************************************)
(* Bounds of the model.                                                    *)
(***************************************************************************)
\* longest line of the exhaustively enumerated lines
MaxLineLen == 4

\* most lines the peer sends before it closes the stream
MaxLines == 3

\* most entries of config.channels
MaxChannels == 2

(***************************************************************************)
(* Text units.                                                             *)
(***************************************************************************)
WhiteSpace == {" ", "\t", "\r", "\n"}

\* a single character outside ASCII (two bytes in UTF-8)
NonAscii == "U+00E9"

DigitWords == {"001", "353", "366", "372", "375", "376", "433", "42", "1234"}

\* char::is_ascii_digit for every character of the unit
IsAsciiDigits(u) == u \in DigitWords

\* str::len of one unit: bytes
ByteLen(u) == IF u = NonAscii THEN 2 ELSE Len(u)

RECURSIVE StrLen(_)
\* str::len: the number of bytes of a string
StrLen(s) == IF s = <<>> THEN 0 ELSE ByteLen(Head(s)) + StrLen(Tail(s))

RECURSIVE TrimStart(_)
TrimStart(s) ==
    IF s # <<>> /\ Head(s) \in WhiteSpace THEN TrimStart(Tail(s)) ELSE s

RECURSIVE TrimEnd(_)
TrimEnd(s) ==
    IF s # <<>> /\ s[Len(s)] \in WhiteSpace
    THEN TrimEnd(SubSeq(s, 1, Len(s) - 1))
    ELSE s

\* str::trim
Trim(s) == TrimEnd(TrimStart(s))

RECURSIVE SplitWsSpaceOnly(_, _, _)
\* a tokenizer that cuts at the space character only
SplitWsSpaceOnly(s, cur, acc) ==
    IF s = <<>>
    THEN IF cur = <<>> THEN acc ELSE Append(acc, cur)
    ELSE IF Head(s) = " "
         THEN SplitWsSpaceOnly(Tail(s), <<>>, IF cur = <<>> THEN acc ELSE Append(acc, cur))
         ELSE SplitWsSpaceOnly(Tail(s), Append(cur, Head(s)), acc)

RECURSIVE SplitWs(_, _, _)
SplitWs(s, cur, acc) ==
    IF s = <<>>
    THEN IF cur = <<>> THEN acc ELSE Append(acc, cur)
    ELSE IF Head(s) \in WhiteSpace
         THEN SplitWs(Tail(s), <<>>, IF cur = <<>> THEN acc ELSE Append(acc, cur))
         ELSE SplitWs(Tail(s), Append(cur, Head(s)), acc)

\* str::split_whitespace, collected: the maximal runs of non-whitespace
SplitWhitespace(s) == SplitWs(s, <<>>, <<>>)

\* str::rfind(" :"): the position of the space of the last " :", 0 for None
FindLastSpaceColon(s) ==
    LET hits == {i \in 1..(Len(s) - 1) : s[i] = " " /\ s[i + 1] = ":"}
    IN  IF hits = {} THEN 0 ELSE CHOOSE i \in hits : \A j \in hits : i >= j

\* str::find(" :"): the position of the space of the first " :", 0 for None
FindSpaceColon(s) ==
    LET hits == {i \in 1..(Len(s) - 1) : s[i] = " " /\ s[i + 1] = ":"}
    IN  IF hits = {} THEN 0 ELSE CHOOSE i \in hits : \A j \in hits : i <= j

\* Iterator::skip(n) on a collected sequence
Skip(seq, n) == IF n >= Len(seq) THEN <<>> ELSE SubSeq(seq, n + 1, Len(seq))

\* str::starts_with(':')
StartsWithColon(tok) == tok # <<>> /\ Head(tok) = ":"

\* the origin taken whole as the nick
WholeOrigin(s) == s

\* prefix.split('!').next(): the text before the first '!', all of it if none
BeforeBang(s) ==
    LET hits == {i \in 1..Len(s) : s[i] = "!"}
    IN  IF hits = {} THEN s
        ELSE SubSeq(s, 1, (CHOOSE i \in hits : \A j \in hits : i <= j) - 1)

(***************************************************************************)
(* IrcMessage::parse.                                                      *)
(***************************************************************************)
IrcMessage(prefix, command, params) ==
    [prefix |-> prefix, command |-> command, params |-> params]

\* the trailing-parameter branch: the line is cut after the ':' of the
\* first " :", the part before it is tokenized again and the part after it
\* is pushed as one more parameter
TrailingParams(line, prefix) ==
    LET colon_pos    == FindSpaceColon(line)
        before_colon == SubSeq(line, 1, colon_pos + 1)
        after_colon  == SubSeq(line, colon_pos + 2, Len(line))
        new_params   == Skip(SplitWhitespace(before_colon),
                             IF prefix # None THEN 2 ELSE 1)
    IN  Append(new_params, after_colon)

parse(line) ==
    LET contents == SplitWhitespace(line)
    IN  IF contents = <<>> THEN None
        ELSE LET first == contents[1]
             IN  IF StartsWithColon(first)
                 THEN IF Len(contents) < 2 THEN None
                      ELSE LET prefix == Some(Tail(first))
                               cmd    == contents[2]
                           IN  IF FindSpaceColon(line) # 0
                               THEN Some(IrcMessage(prefix, cmd, TrailingParams(line, prefix)))
                               ELSE Some(IrcMessage(prefix, cmd, Skip(contents, 2)))
                 ELSE IF FindSpaceColon(line) # 0
                      THEN Some(IrcMessage(None, first, TrailingParams(line, None)))
                      ELSE Some(IrcMessage(None, first, Skip(contents, 1)))

(***************************************************************************)
(* Console output.  One println! is recorded as its format string and the  *)
(* values substituted into it.                                             *)
(***************************************************************************)
Println(fmt, args) == [fmt |-> fmt, args |-> args]

\* Vec::last
Last(seq) == IF seq = <<>> THEN None ELSE Some(seq[Len(seq)])

\* Vec::first
First(seq) == IF seq = <<>> THEN None ELSE Some(seq[1])

(***************************************************************************)
(* handle_numeric_reply: what it prints.                                   *)
(***************************************************************************)
\* the routine with a short "353" reply handed on to the catch-all arm
handle_numeric_reply_fallthrough(code, message) ==
    CASE code = <<"001">> -> <<Println("Connected to server", <<>>)>>
      [] code = <<"353">> /\ Len(message.params) >= 4 ->
            <<Println("Users in {}: {}", <<message.params[3], message.params[4]>>)>>
      [] code = <<"366">> ->
            IF Len(message.params) >= 2
            THEN <<Println("End of names list for {}", <<message.params[2]>>)>>
            ELSE <<>>
      [] code = <<"372">> ->
            IF Last(message.params) # None
            THEN <<Println("{}", <<Last(message.params)[1]>>)>>
            ELSE <<>>
      [] code = <<"375">> -> <<Println("--- Message of the Day ---", <<>>)>>
      [] code = <<"376">> -> <<Println("--- End of MOTD ---", <<>>)>>
      [] OTHER ->
            IF message.params # <<>>
               /\ Last(message.params) # None
               /\ StrLen(Last(message.params)[1]) > 1
            THEN <<Println("{}", <<Last(message.params)[1]>>)>>
            ELSE <<>>

handle_numeric_reply(code, message) ==
    CASE code = <<"001">> -> <<Println("Connected to server", <<>>)>>
      [] code = <<"353">> ->
            IF Len(message.params) >= 4
            THEN <<Println("Users in {}: {}", <<message.params[3], message.params[4]>>)>>
            ELSE <<>>
      [] code = <<"366">> ->
            IF Len(message.params) >= 2
            THEN <<Println("End of names list for {}", <<message.params[2]>>)>>
            ELSE <<>>
      [] code = <<"372">> ->
            IF Last(message.params) # None
            THEN <<Println("{}", <<Last(message.params)[1]>>)>>
            ELSE <<>>
      [] code = <<"375">> -> <<Println("--- Message of the Day ---", <<>>)>>
      [] code = <<"376">> -> <<Println("--- End of MOTD ---", <<>>)>>
      [] OTHER ->
            IF message.params # <<>>
               /\ Last(message.params) # None
               /\ StrLen(Last(message.params)[1]) > 1
            THEN <<Println("{}", <<Last(message.params)[1]>>)>>
            ELSE <<>>

(***************************************************************************)
(* handle_message: the outgoing command it returns and what it prints.     *)
(***************************************************************************)
Outcome(resp, prints) == [response |-> resp, prints |-> prints]

\* the "PING" arm echoing the last parameter, the trailing text
HandlePingTrailing(message) ==
    IF Last(message.params) # None
    THEN LET server == Last(message.params)[1]
         IN  Outcome(Some(<<"PONG", " ">> \o server),
                     <<Println("< PING {}", <<server>>),
                       Println("> PONG {}", <<server>>)>>)
    ELSE Outcome(None, <<>>)

\* the "PING" arm
HandlePing(message) ==
    IF First(message.params) # None
    THEN LET server == First(message.params)[1]
         IN  Outcome(Some(<<"PONG", " ">> \o server),
                     <<Println("< PING {}", <<server>>),
                       Println("> PONG {}", <<server>>)>>)
    ELSE Outcome(None, <<>>)

\* the "001" arm joining the last configured channel instead of the first
HandleWelcomeLast(message, cfg) ==
    Outcome(IF Last(cfg.channels) # None
            THEN Some(<<"JOIN", " ">> \o Last(cfg.channels)[1])
            ELSE None,
            handle_numeric_reply(<<"001">>, message))

\* the "001" arm
HandleWelcome(message, cfg) ==
    Outcome(IF First(cfg.channels) # None
            THEN Some(<<"JOIN", " ">> \o First(cfg.channels)[1])
            ELSE None,
            handle_numeric_reply(<<"001">>, message))

\* the "PRIVMSG" arm
HandlePrivmsg(message) ==
    IF Len(message.params) >= 2 /\ message.prefix # None
    THEN Outcome(None,
                 <<Println("[{}] <{}> {}",
                           <<message.params[1], BeforeBang(message.prefix[1]),
                             message.params[2]>>)>>)
    ELSE Outcome(None, <<>>)

\* the "JOIN" and "PART" arms, which differ in the text printed only
HandleMembership(message, fmt) ==
    IF First(message.params) # None /\ message.prefix # None
    THEN Outcome(None,
                 <<Println(fmt, <<BeforeBang(message.prefix[1]),
                                  First(message.params)[1]>>)>>)
    ELSE Outcome(None, <<>>)

\* the catch-all arm
HandleOther(message) ==
    IF \A i \in 1..Len(message.command) : IsAsciiDigits(message.command[i])
    THEN Outcome(None, handle_numeric_reply(message.command, message))
    ELSE Outcome(None, <<Println("< {}", <<message.command>>)>>)

\* the dispatch joining at the end of the message of the day as well
handle_message_join_on_motd(message, cfg) ==
    CASE message.command = <<"PING">>    -> HandlePing(message)
      [] message.command \in {<<"001">>, <<"376">>} -> HandleWelcome(message, cfg)
      [] message.command = <<"PRIVMSG">> -> HandlePrivmsg(message)
      [] message.command = <<"JOIN">>    -> HandleMembership(message, "* {} joined {}")
      [] message.command = <<"PART">>    -> HandleMembership(message, "* {} left {}")
      [] OTHER                           -> HandleOther(message)

\* the dispatch matching the keepalive verb without regard to case
handle_message_anycase(message, cfg) ==
    CASE message.command \in {<<"PING">>, <<"ping">>} -> HandlePing(message)
      [] message.command = <<"001">>     -> HandleWelcome(message, cfg)
      [] message.command = <<"PRIVMSG">> -> HandlePrivmsg(message)
      [] message.command = <<"JOIN">>    -> HandleMembership(message, "* {} joined {}")
      [] message.command = <<"PART">>    -> HandleMembership(message, "* {} left {}")
      [] OTHER                           -> HandleOther(message)

handle_message(message, cfg) ==
    CASE message.command = <<"PING">>    -> HandlePing(message)
      [] message.command = <<"001">>     -> HandleWelcome(message, cfg)
      [] message.command = <<"PRIVMSG">> -> HandlePrivmsg(message)
      [] message.command = <<"JOIN">>    -> HandleMembership(message, "* {} joined {}")
      [] message.command = <<"PART">>    -> HandleMembership(message, "* {} left {}")
      [] OTHER                           -> HandleOther(message)

(***************************************************************************)
(* IrcConfig and the two registration lines main builds from it.           *)
(***************************************************************************)
DefaultConfig ==
    [server   |-> <<"localhost">>,
     port     |-> 6667,
     nick     |-> <<"user">>,
     username |-> <<"user">>,
     realname |-> <<"user">>,
     channels |-> << <<"#general">> >>]

connection_request1(cfg) == <<"NICK", " ">> \o cfg.nick

connection_request2(cfg) ==
    <<"USER", " ">> \o cfg.username \o <<" ", "0", " ", "*", " ", ":">> \o cfg.realname

(***************************************************************************)
(* send_message: the bytes on the wire after one call that succeeds.  The  *)
(* wire is kept as the sequence of the writes made so far.                 *)
(***************************************************************************)
CRLF == <<"\r", "\n">>

send_message(writer, message) == Append(writer, message \o CRLF)

(***************************************************************************)
(* Inputs.                                                                 *)
(***************************************************************************)
SeqsUpTo(S, n) == UNION {[1..k -> S] : k \in 0..n}

CoreUnits == {" ", ":", "x", "PING"}

\* every line over the core units, up to MaxLineLen units
ShortLines == SeqsUpTo(CoreUnits, MaxLineLen)

Prefixes == {<<>>, <<":", "n", "!", "u", " ">>, <<":", "s", " ">>}

Commands ==
    {<<"PING">>, <<"001">>, <<"PRIVMSG">>, <<"JOIN">>, <<"PART">>, <<"ping">>,
     <<"NOTICE">>, <<"353">>, <<"366">>, <<"372">>, <<"375">>, <<"376">>,
     <<"433">>, <<"42">>, <<"1234">>}

Middles ==
    {<<>>, <<" ", "#c">>, <<" ", " ", "#c", "\t", "x">>,
     <<" ", "n", " ", "=", " ", "#c">>, <<"\t", ":", "x">>,
     <<" ", "x", "\r", "y">>}

Trailings ==
    {<<>>, <<" ", ":">>, <<" ", ":", "x">>, <<" ", ":", "x", " ", "y">>,
     <<" ", ":", "x", " ", ":", "y">>, <<" ", ":", NonAscii>>,
     <<" ", ":", "x", "\r", "y">>}

\* longer lines: [prefix] command [middle parameters] [trailing parameter]
ProtocolLines ==
    {p \o c \o m \o t : p \in Prefixes, c \in Commands, m \in Middles, t \in Trailings}

Lines == ShortLines \cup ProtocolLines

ChannelNames == {<<"#general">>, <<"#c">>}

ChannelLists == SeqsUpTo(ChannelNames, MaxChannels)

\* the lines a peer sends in the runs of the whole client
StreamLines ==
    {<<>>,
     <<":", "s">>,
     <<"PING">>,
     <<"PING", " ", "x">>,
     <<"PING", " ", "y">>,
     <<"PING", " ", ":", "y">>,
     <<":", "s", " ", "001", " ", "user", " ", ":", "x">>,
     <<"376">>,
     <<":", "n", "!", "u", " ", "PRIVMSG", " ", "#c", " ", ":", "x">>}

Streams == SeqsUpTo(StreamLines, MaxLines)

\* the lines a peer sends in the runs checked for termination: one that does
\* not parse, one that is answered and one that is not
FairLines ==
    {<<>>,
     <<"PING", " ", "x">>,
     <<":", "n", "!", "u", " ", "PRIVMSG", " ", "#c", " ", ":", "x">>}

(***************************************************************************)
(* main.  pc is the await point (or stage between two) main stands at.     *)
(* console holds what has been printed since the last line was read.       *)
(***************************************************************************)
Init ==
    /\ pc = "connect"
    /\ config = DefaultConfig
    /\ stream \in Streams
    /\ nread = 0
    /\ input = <<>>
    /\ parsed_message = None
    /\ response = None
    /\ console = <<>>
    /\ wire = <<>>

\* the whole client, the peer sending any stream of FairLines
InitFair ==
    /\ Init
    /\ \A i \in 1..Len(stream) : stream[i] \in FairLines

\* one line handed to the parser and the dispatcher with some configuration,
\* the handshake done
InitLine ==
    /\ pc = "read"
    /\ config \in {[DefaultConfig EXCEPT !.channels = c] : c \in ChannelLists}
    /\ stream \in {<<l>> : l \in Lines}
    /\ nread = 0
    /\ input = <<>>
    /\ parsed_message = None
    /\ response = None
    /\ console = <<>>
    /\ wire = send_message(send_message(<<>>, connection_request1(config)),
                           connection_request2(config))

\* the connection made and the loop entered without the handshake
ConnectThenRead ==
    /\ pc = "connect"
    /\ pc' = "read"
    /\ console' = <<Println("Connecting to {}...", <<config.server, config.port>>)>>
    /\ UNCHANGED <<config, stream, nread, input, parsed_message, response, wire>>

\* TcpStream::connect succeeds
Connect ==
    /\ pc = "connect"
    /\ pc' = "send_nick"
    /\ console' = <<Println("Connecting to {}...", <<config.server, config.port>>)>>
    /\ UNCHANGED <<config, stream, nread, input, parsed_message, response, wire>>

\* TcpStream::connect fails: main returns the error
ConnectFail ==
    /\ pc = "connect"
    /\ pc' = "error"
    /\ console' = <<Println("Connecting to {}...", <<config.server, config.port>>)>>
    /\ UNCHANGED <<config, stream, nread, input, parsed_message, response, wire>>

SendNick ==
    /\ pc = "send_nick"
    /\ wire' = send_message(wire, connection_request1(config))
    /\ pc' = "send_user"
    /\ UNCHANGED <<config, stream, nread, input, parsed_message, response, console>>

SendUser ==
    /\ pc = "send_user"
    /\ wire' = send_message(wire, connection_request2(config))
    /\ pc' = "read"
    /\ UNCHANGED <<config, stream, nread, input, parsed_message, response, console>>

\* read_line returns a line of the peer, terminator included
ReadLine ==
    /\ pc = "read"
    /\ nread < Len(stream)
    /\ input' = stream[nread + 1] \o CRLF
    /\ nread' = nread + 1
    /\ console' = <<>>
    /\ pc' = "parse"
    /\ UNCHANGED <<config, stream, parsed_message, response, wire>>

\* a read of 0 bytes that does not break the loop
ReadEofContinue ==
    /\ pc = "read"
    /\ nread = Len(stream)
    /\ console' = <<Println("Failed to parse message: {}", <<<<>>>>)>>
    /\ pc' = "read"
    /\ UNCHANGED <<config, stream, nread, input, parsed_message, response, wire>>

\* read_line returns 0 bytes: the loop breaks and main returns Ok
ReadEof ==
    /\ pc = "read"
    /\ nread = Len(stream)
    /\ console' = <<Println("Connection closed", <<>>)>>
    /\ pc' = "closed"
    /\ UNCHANGED <<config, stream, nread, input, parsed_message, response, wire>>

\* read_line fails: main returns the error
ReadFail ==
    /\ pc = "read"
    /\ pc' = "error"
    /\ UNCHANGED <<config, stream, nread, input, parsed_message, response, console, wire>>

\* input.trim() and IrcMessage::parse return a message
ParseOk ==
    /\ pc = "parse"
    /\ parse(Trim(input)) # None
    /\ parsed_message' = parse(Trim(input))
    /\ pc' = "handle"
    /\ UNCHANGED <<config, stream, nread, input, response, console, wire>>

\* a parse failure that ends the loop
ParseFailBreak ==
    /\ pc = "parse"
    /\ parse(Trim(input)) = None
    /\ console' = <<Println("Failed to parse message: {}", <<Trim(input)>>)>>
    /\ input' = <<>>
    /\ pc' = "closed"
    /\ UNCHANGED <<config, stream, nread, parsed_message, response, wire>>

\* IrcMessage::parse returns None: the line is reported and the loop goes on
\* (input.clear() opens the next iteration)
ParseFail ==
    /\ pc = "parse"
    /\ parse(Trim(input)) = None
    /\ console' = <<Println("Failed to parse message: {}", <<Trim(input)>>)>>
    /\ input' = <<>>
    /\ pc' = "read"
    /\ UNCHANGED <<config, stream, nread, parsed_message, response, wire>>

\* a dispatch that remembers the welcome: only the first 001 is answered
HandleMessageOnce ==
    /\ pc = "handle"
    /\ LET out  == handle_message(parsed_message[1], config)
           seen == \E i \in 1..(nread - 1) :
                      LET m == parse(Trim(stream[i] \o CRLF))
                      IN  m # None /\ m[1].command = <<"001">>
       IN  /\ response' = IF seen /\ parsed_message[1].command = <<"001">>
                           THEN None
                           ELSE out.response
           /\ console' = out.prints
    /\ pc' = "respond"
    /\ UNCHANGED <<config, stream, nread, input, parsed_message, wire>>

HandleMessage ==
    /\ pc = "handle"
    /\ LET out == handle_message(parsed_message[1], config)
       IN  /\ response' = out.response
           /\ console' = out.prints
    /\ pc' = "respond"
    /\ UNCHANGED <<config, stream, nread, input, parsed_message, wire>>

\* the response written twice
SendResponseTwice ==
    /\ pc = "respond"
    /\ response # None
    /\ wire' = send_message(send_message(wire, response[1]), response[1])
    /\ input' = <<>>
    /\ parsed_message' = None
    /\ response' = None
    /\ pc' = "read"
    /\ UNCHANGED <<config, stream, nread, console>>

\* the response left unwritten when the next line is read
SendResponseLater ==
    /\ pc = "respond"
    /\ response # None
    /\ input' = <<>>
    /\ parsed_message' = None
    /\ response' = None
    /\ pc' = "read"
    /\ UNCHANGED <<config, stream, nread, console, wire>>

\* handle_message returned Some(response) and send_message succeeds
SendResponse ==
    /\ pc = "respond"
    /\ response # None
    /\ wire' = send_message(wire, response[1])
    /\ input' = <<>>
    /\ parsed_message' = None
    /\ response' = None
    /\ pc' = "read"
    /\ UNCHANGED <<config, stream, nread, console>>

\* handle_message returned None: nothing is sent
NoResponse ==
    /\ pc = "respond"
    /\ response = None
    /\ input' = <<>>
    /\ parsed_message' = None
    /\ pc' = "read"
    /\ UNCHANGED <<config, stream, nread, response, console, wire>>

\* write_all or flush of send_message fails: main returns the error
WriteFail ==
    /\ \/ pc \in {"send_nick", "send_user"}
       \/ pc = "respond" /\ response # None
    /\ pc' = "error"
    /\ UNCHANGED <<config, stream, nread, input, parsed_message, response, console, wire>>

\* the receive loop
Loop ==
    \/ ReadLine
    \/ ReadEof
    \/ ReadFail
    \/ ParseOk
    \/ ParseFail
    \/ HandleMessage
    \/ SendResponse
    \/ NoResponse
    \/ WriteFail

Next ==
    \/ Connect
    \/ ConnectFail
    \/ SendNick
    \/ SendUser
    \/ Loop

\* the whole client, the peer sending any stream of StreamLines
Spec == Init /\ [][Next]_vars

\* the whole client, every await of main completing
FairSpec == InitFair /\ [][Next]_vars /\ WF_vars(Next)

\* one iteration of the receive loop on any line of Lines
SpecLine == InitLine /\ [][Loop]_vars

(***************************************************************************)
(* The parameter list as the specification words it: the tokens that lie   *)
(* before the first " :", less origin and command, then the trailing text. *)
(***************************************************************************)
ClaimedHead(line) ==
    IF FindSpaceColon(line) = 0 THEN line
    ELSE SubSeq(line, 1, FindSpaceColon(line) - 1)

ClaimedTokens(line) == SplitWhitespace(ClaimedHead(line))

ClaimedHasOrigin(line) ==
    ClaimedTokens(line) # <<>> /\ StartsWithColon(ClaimedTokens(line)[1])

ClaimedHasCommand(line) ==
    Len(ClaimedTokens(line)) >= (IF ClaimedHasOrigin(line) THEN 2 ELSE 1)

ClaimedCommand(line) ==
    ClaimedTokens(line)[IF ClaimedHasOrigin(line) THEN 2 ELSE 1]

ClaimedMiddle(line) ==
    Skip(ClaimedTokens(line), IF ClaimedHasOrigin(line) THEN 2 ELSE 1)

ClaimedTrailing(line) == SubSeq(line, FindSpaceColon(line) + 2, Len(line))

ClaimedParams(line) ==
    IF FindSpaceColon(line) = 0 THEN ClaimedMiddle(line)
    ELSE Append(ClaimedMiddle(line), ClaimedTrailing(line))

\* the line the current iteration handed to IrcMessage::parse
RawMessage == Trim(input)

\* the message the current iteration dispatches
Msg == parsed_message[1]

(***************************************************************************)
(* C1.  Keepalive echo: when the line's command is PING and the line       *)
(* carries at least one parameter (the first middle token, or the trailing *)
(* text when there is no middle token), the outgoing command is "PONG "    *)
(* followed by exactly that parameter; "PING :T" yields "PONG T".          *)
(* The code answers "PING :T" with "PONG :".                               *)
(***************************************************************************)
C1_KeepaliveEcho ==
    (pc = "respond" /\ Msg.command = <<"PING">> /\ ClaimedParams(RawMessage) # <<>>)
        => response = Some(<<"PONG", " ">> \o ClaimedParams(RawMessage)[1])

(***************************************************************************)
(* C2.  For every line that contains " :", the parsed params are the       *)
(* tokens after origin and command and before the first " :", followed by  *)
(* exactly one more element, the trailing text.                            *)
(* The code adds an element ":" in front of the trailing text.             *)
(***************************************************************************)
C2_TrailingBoundary ==
    (pc \in {"handle", "respond"} /\ FindSpaceColon(RawMessage) # 0)
        => Msg.params = ClaimedParams(RawMessage)

(***************************************************************************)
(* C3.  Registration reply: dispatching a message whose command is "001"   *)
(* returns "JOIN " followed by the first entry of config.channels when the *)
(* list is not empty and no outgoing command when it is empty; no later    *)
(* entry of the list is joined.                                            *)
(***************************************************************************)
C3_RegistrationReply ==
    (pc = "respond" /\ Msg.command = <<"001">>)
        => /\ config.channels = <<>> => response = None
           /\ config.channels # <<>>
                 => response = Some(<<"JOIN", " ">> \o config.channels[1])

C3_Witness ==
    /\ pc = "respond"
    /\ Msg.command = <<"001">>
    /\ Len(config.channels) >= 2
    /\ config.channels[1] # config.channels[2]
    /\ response = Some(<<"JOIN", " ">> \o config.channels[1])

(***************************************************************************)
(* C4.  Chat message payload: a line ":<origin> PRIVMSG <target> :<text>"  *)
(* produces no outgoing command and one chat notification whose target is  *)
(* <target> and whose text is <text>, the trailing text verbatim; a        *)
(* PRIVMSG with fewer than 2 parameters produces no notification.          *)
(* The code reports the text ":" for every such line.                      *)
(***************************************************************************)
C4_ChatPayload ==
    (pc = "respond" /\ Msg.command = <<"PRIVMSG">>)
        => /\ response = None
           /\ (/\ ClaimedHasOrigin(RawMessage)
               /\ FindSpaceColon(RawMessage) # 0
               /\ Len(ClaimedMiddle(RawMessage)) = 1)
                 => /\ Len(console) = 1
                    /\ console[1].fmt = "[{}] <{}> {}"
                    /\ console[1].args[1] = ClaimedMiddle(RawMessage)[1]
                    /\ console[1].args[3] = ClaimedTrailing(RawMessage)
           /\ Len(Msg.params) < 2 => console = <<>>

(***************************************************************************)
(* What the receive loop is expected to have put on the wire.              *)
(***************************************************************************)
\* the outgoing command one line of the peer calls for, None if none
Reply(line, cfg) ==
    LET m == parse(Trim(line \o CRLF))
    IN  IF m = None THEN None ELSE handle_message(m[1], cfg).response

RECURSIVE Replies(_, _)
\* the writes the lines call for, in the order of the lines
Replies(lines, cfg) ==
    IF lines = <<>> THEN <<>>
    ELSE (IF Reply(Head(lines), cfg) = None THEN <<>>
          ELSE <<Reply(Head(lines), cfg)[1] \o CRLF>>) \o Replies(Tail(lines), cfg)

Handshake(cfg) ==
    <<connection_request1(cfg) \o CRLF, connection_request2(cfg) \o CRLF>>

\* the lines read and done with: all the lines read but the one in hand
Processed ==
    IF pc \in {"parse", "handle", "respond"}
    THEN SubSeq(stream, 1, nread - 1)
    ELSE SubSeq(stream, 1, nread)

Parseable(line) == parse(Trim(line \o CRLF)) # None

InLoop == pc \in {"read", "parse", "handle", "respond", "closed"}

(***************************************************************************)
(* C5.  Malformed lines are skipped, not fatal: the step that finds the    *)
(* line in hand unparseable writes nothing and returns to the read with    *)
(* the loop's state as it was before the line was read, and what is on the *)
(* wire is at every moment what the parseable lines alone call for.        *)
(***************************************************************************)
C5_MalformedSkipped ==
    /\ [](InLoop => wire = Handshake(config)
                            \o Replies(SelectSeq(Processed, Parseable), config))
    /\ [][(pc = "parse" /\ parse(Trim(input)) = None)
            => /\ pc' = "read"
               /\ wire' = wire
               /\ input' = <<>>
               /\ parsed_message' = None
               /\ response' = None
               /\ UNCHANGED <<config, stream, nread>>]_vars

C5_Witness ==
    /\ pc = "respond"
    /\ nread >= 2
    /\ ~Parseable(stream[nread - 1])
    /\ response # None

(***************************************************************************)
(* C6.  Parse failure conditions: parse fails exactly when the trimmed     *)
(* line has no command token among the tokens taken before the first " :", *)
(* and otherwise returns as command that token.                            *)
(* The code parses ":origin :text" and takes ":text" as the command.       *)
(***************************************************************************)
C6_ParseFailure ==
    /\ pc = "handle"
          => /\ ClaimedHasCommand(RawMessage)
             /\ Msg.command = ClaimedCommand(RawMessage)
    /\ (pc = "read" /\ console # <<>>
        /\ console[1].fmt = "Failed to parse message: {}")
          => ~ClaimedHasCommand(console[1].args[1])

(***************************************************************************)
(* C7.  Handshake ordering: "NICK <nick>" and then "USER <username> 0 *    *)
(* :<realname>" are the first two transmissions, each made once, and no    *)
(* line is read, parsed or dispatched before both are on the wire.         *)
(***************************************************************************)
C7_HandshakeFirst ==
    /\ (InLoop \/ nread > 0 \/ input # <<>> \/ parsed_message # None)
          => Len(wire) >= 2
    /\ Len(wire) >= 1 => wire[1] = connection_request1(config) \o CRLF
    /\ Len(wire) >= 2 => wire[2] = connection_request2(config) \o CRLF
    /\ \A i \in 3..Len(wire) :
          wire[i] \notin {connection_request1(config) \o CRLF,
                          connection_request2(config) \o CRLF}

C7_Witness ==
    /\ pc = "parse"
    /\ nread = 1
    /\ wire = Handshake(config)

(***************************************************************************)
(* C8.  Response before next read: whenever a line is read, every outgoing *)
(* command the earlier lines called for is already on the wire, one write  *)
(* per command, in the order of the lines that caused them, and no         *)
(* response is pending.                                                    *)
(***************************************************************************)
C8_ResponseBeforeNextRead ==
    InLoop => /\ wire = Handshake(config) \o Replies(Processed, config)
              /\ pc \in {"read", "parse", "handle", "closed"} => response = None

C8_Witness ==
    /\ pc = "parse"
    /\ nread = 3
    /\ Len(wire) = 4
    /\ wire[3] # wire[4]

(***************************************************************************)
(* C9.  End-of-stream is terminal: the read that finds the stream ended    *)
(* closes the session and writes nothing, a closed session takes no        *)
(* further step, and, every await completing, the client ends closed       *)
(* unless an I/O call fails.                                               *)
(***************************************************************************)
C9_EndOfStream ==
    /\ [][(pc = "read" /\ nread = Len(stream) /\ pc' # "error")
            => /\ pc' = "closed"
               /\ wire' = wire
               /\ UNCHANGED <<nread, input, parsed_message, response>>]_vars
    /\ [][pc # "closed"]_vars
    /\ <>(pc \in {"closed", "error"})

C9_Witness ==
    /\ pc = "closed"
    /\ nread = Len(stream)
    /\ nread >= 1
    /\ Len(wire) >= 3

(***************************************************************************)
(* C10.  Outgoing commands are produced only for keepalive and welcome:    *)
(* handle_message returns at most one outgoing command, and returns one    *)
(* exactly when the command is "PING" with at least one parameter or "001" *)
(* with at least one configured channel.                                   *)
(***************************************************************************)
C10_OnlyPingAndWelcome ==
    pc = "respond"
        => /\ Len(response) <= 1
           /\ response # None
                 <=> \/ Msg.command = <<"PING">> /\ Msg.params # <<>>
                     \/ Msg.command = <<"001">> /\ config.channels # <<>>

C10_Witness ==
    /\ pc = "respond"
    /\ Msg.command = <<"ping">>
    /\ Msg.params # <<>>
    /\ response = None

(***************************************************************************)
(* Re-joining a parsed message, and the line with its whitespace           *)
(* normalized.                                                             *)
(***************************************************************************)
RECURSIVE JoinWithSpaces(_)
\* the tokens joined with single spaces
JoinWithSpaces(tokens) ==
    IF tokens = <<>> THEN <<>>
    ELSE IF Len(tokens) = 1 THEN tokens[1]
    ELSE tokens[1] \o <<" ">> \o JoinWithSpaces(Tail(tokens))

\* command and params joined with single spaces
Rejoined(m) == JoinWithSpaces(<<m.command>> \o m.params)

RECURSIVE Collapsed(_)
\* every run of whitespace replaced by one space
Collapsed(s) ==
    IF s = <<>> THEN <<>>
    ELSE IF Head(s) \in {" ", "\t", "\r", "\n"}
         THEN IF Len(s) >= 2 /\ s[2] \in {" ", "\t", "\r", "\n"}
              THEN Collapsed(Tail(s))
              ELSE <<" ">> \o Collapsed(Tail(s))
         ELSE <<Head(s)>> \o Collapsed(Tail(s))

\* the line in hand is not empty, does not begin with ':' and holds no " :"
PlainLine ==
    /\ pc \in {"handle", "respond"}
    /\ RawMessage # <<>>
    /\ RawMessage[1] # ":"
    /\ \A i \in 1..(Len(RawMessage) - 1) :
          ~(RawMessage[i] = " " /\ RawMessage[i + 1] = ":")

(***************************************************************************)
(* C11 as stated.  Tokenization round trip: for a plain line, command and  *)
(* params joined with single spaces equal the line with every run of       *)
(* whitespace collapsed to one space, and parsing the joined string again  *)
(* yields the same command and params.                                     *)
(* "PING<tab>:x" joins to "PING :x", which parses to other params.         *)
(***************************************************************************)
C11_RoundTripAsStated ==
    PlainLine => /\ Rejoined(Msg) = Collapsed(RawMessage)
                 /\ parse(Rejoined(Msg)) = parsed_message

(***************************************************************************)
(* C11 amended.  For a plain line the joined string equals the line with   *)
(* every run of whitespace collapsed to one space; parsing the joined      *)
(* string again yields the same command and params provided no parameter   *)
(* begins with ':'.                                                        *)
(***************************************************************************)
C11_RoundTrip ==
    PlainLine => /\ Rejoined(Msg) = Collapsed(RawMessage)
                 /\ (\A i \in 1..Len(Msg.params) : Msg.params[i][1] # ":")
                       => parse(Rejoined(Msg)) = parsed_message

C11_Witness ==
    /\ PlainLine
    /\ Len(Msg.params) >= 2
    /\ Rejoined(Msg) # RawMessage
    /\ parse(Rejoined(Msg)) = parsed_message

(***************************************************************************)
(* C12.  Nick derivation and origin-less suppression: for PRIVMSG, JOIN    *)
(* and PART messages that meet their parameter minimum, one notification   *)
(* is produced when the message has an origin and none when it has not;    *)
(* its nick is the part of the origin before its first '!', the whole      *)
(* origin when it holds no '!'; the channel of a JOIN or PART notification *)
(* is the first parameter.                                                 *)
(***************************************************************************)
\* n is the origin o up to its first '!' (all of o when o holds no '!')
IsNickOf(n, o) ==
    /\ Len(n) <= Len(o)
    /\ n = SubSeq(o, 1, Len(n))
    /\ \A i \in 1..Len(n) : n[i] # "!"
    /\ Len(n) = Len(o) \/ o[Len(n) + 1] = "!"

MeetsMinimum ==
    \/ Msg.command = <<"PRIVMSG">> /\ Len(Msg.params) >= 2
    \/ Msg.command \in {<<"JOIN">>, <<"PART">>} /\ Len(Msg.params) >= 1

C12_NickDerivation ==
    (pc = "respond" /\ MeetsMinimum)
        => /\ Msg.prefix = None => console = <<>>
           /\ Msg.prefix # None
                 => /\ Len(console) = 1
                    /\ Msg.command = <<"PRIVMSG">>
                          => IsNickOf(console[1].args[2], Msg.prefix[1])
                    /\ Msg.command \in {<<"JOIN">>, <<"PART">>}
                          => /\ IsNickOf(console[1].args[1], Msg.prefix[1])
                             /\ console[1].args[2] = Msg.params[1]

C12_Witness ==
    /\ pc = "respond"
    /\ Msg.command = <<"JOIN">>
    /\ Msg.prefix = Some(<<"n", "!", "u">>)
    /\ console = <<Println("* {} joined {}", <<<<"n">>, <<"#c">>>>)>>

(***************************************************************************)
(* The session state of the specification, read off the run: Closed once   *)
(* the stream has ended, Registered once the handling of a welcome reply   *)
(* 001 is complete, Connecting before.                                     *)
(***************************************************************************)
IsWelcome(line) ==
    /\ Parseable(line)
    /\ parse(Trim(line \o CRLF))[1].command = <<"001">>

\* the number of lines read and done with when main stands at p with n read
Done(p, n) == IF p \in {"parse", "handle", "respond"} THEN n - 1 ELSE n

\* the session state when main stands at p with the first k lines done with
SessionAt(p, k) ==
    IF p = "closed" THEN "Closed"
    ELSE IF \E i \in 1..k : IsWelcome(stream[i]) THEN "Registered"
    ELSE "Connecting"

Session == SessionAt(pc, Done(pc, nread))

\* the session state after the step
SessionAfter == SessionAt(pc', Done(pc', nread'))

SessionRank(st) ==
    CASE st = "Connecting" -> 0 [] st = "Registered" -> 1 [] st = "Closed" -> 2

\* this step writes a JOIN command
JoinSent ==
    /\ Len(wire') = Len(wire) + 1
    /\ wire'[Len(wire')][1] = "JOIN"

(***************************************************************************)
(* C13 as stated.  The session moves only forward through Connecting,      *)
(* Registered, Closed, and a JOIN is transmitted only on a step on which a *)
(* welcome reply 001 moves the session from Connecting to Registered.      *)
(* The code answers every 001 with a JOIN, also in a Registered session.   *)
(***************************************************************************)
C13_JoinOnTransitionAsStated ==
    /\ [][SessionRank(SessionAfter) >= SessionRank(Session)]_vars
    /\ [][JoinSent => (Session = "Connecting" /\ SessionAfter = "Registered")]_vars

(***************************************************************************)
(* C13 amended.  The session moves only forward through Connecting,        *)
(* Registered, Closed and never back to Connecting; a JOIN is transmitted  *)
(* only on a step that answers a welcome reply 001 and leaves the session  *)
(* Registered, whether the session was Connecting or already Registered.   *)
(***************************************************************************)
C13_JoinOnWelcome ==
    /\ [][SessionRank(SessionAfter) >= SessionRank(Session)]_vars
    /\ [][JoinSent => /\ pc = "respond"
                      /\ Msg.command = <<"001">>
                      /\ SessionAfter = "Registered"]_vars

C13_Witness ==
    /\ pc = "read"
    /\ Session = "Registered"
    /\ Len(wire) >= 4
    /\ wire[3][1] = "JOIN"
    /\ wire[4][1] = "JOIN"

(***************************************************************************)
(* Lengths counted in characters, and the numeric reply codes of the       *)
(* specification: exactly three digit characters.                          *)
(***************************************************************************)
CharLen(u) == IF u = NonAscii THEN 1 ELSE Len(u)

RECURSIVE CharCount(_)
CharCount(s) == IF s = <<>> THEN 0 ELSE CharLen(Head(s)) + CharCount(Tail(s))

ClaimedNumeric(tok) ==
    /\ \A i \in 1..Len(tok) : tok[i] \in DigitWords
    /\ CharCount(tok) = 3

\* the generic suppression rule as the specification words it
ClaimedServerNotice(params) ==
    IF params # <<>> /\ CharCount(params[Len(params)]) > 1
    THEN <<Println("{}", <<params[Len(params)]>>)>>
    ELSE <<>>

(***************************************************************************)
(* C14.  Numeric routing: a command is routed to numeric-reply handling    *)
(* only if it is exactly three digit characters; every other command that  *)
(* is not PING, PRIVMSG, JOIN or PART, all-digit tokens such as "42" or     *)
(* "1234" included, yields the "unhandled command" notification with the   *)
(* raw command token.                                                      *)
(* The code routes every all-digit token to numeric-reply handling.        *)
(***************************************************************************)
C14_NumericRouting ==
    (/\ pc = "respond"
     /\ Msg.command \notin {<<"PING">>, <<"PRIVMSG">>, <<"JOIN">>, <<"PART">>}
     /\ ~ClaimedNumeric(Msg.command))
        => console = <<Println("< {}", <<Msg.command>>)>>

(***************************************************************************)
(* C16.  Generic numeric suppression: for a numeric reply other than 001,  *)
(* 353, 366, 372, 375 and 376 a "server notice" with the last parameter is *)
(* emitted if and only if there is a parameter and the last one is longer  *)
(* than 1 character, counted in characters.                                *)
(* The code counts bytes and emits a single non-ASCII character.           *)
(***************************************************************************)
C16_GenericSuppression ==
    (/\ pc = "respond"
     /\ ClaimedNumeric(Msg.command)
     /\ Msg.command \notin {<<"001">>, <<"353">>, <<"366">>, <<"372">>,
                            <<"375">>, <<"376">>})
        => console = ClaimedServerNotice(Msg.params)

(***************************************************************************)
(* C17 as stated.  A "353" reply with fewer than 4 parameters produces no  *)
(* names-list notification and falls through to the generic suppression    *)
(* rule.                                                                   *)
(* The "353" arm of the code ends the match: nothing is printed.           *)
(***************************************************************************)
C17_ShortNamesAsStated ==
    (pc = "respond" /\ Msg.command = <<"353">> /\ Len(Msg.params) < 4)
        => console = ClaimedServerNotice(Msg.params)

(***************************************************************************)
(* C17 amended.  A "353" reply with fewer than 4 parameters is handled     *)
(* without a parameter access out of range and produces no notification    *)
(* at all: neither a names list nor a server notice.                       *)
(***************************************************************************)
C17_ShortNames ==
    (pc = "respond" /\ Msg.command = <<"353">> /\ Len(Msg.params) < 4)
        => console = <<>> /\ response = None

C17_Witness ==
    /\ pc = "respond"
    /\ Msg.command = <<"353">>
    /\ Len(Msg.params) = 3
    /\ CharCount(Msg.params[3]) > 1
    /\ console = <<>>

(***************************************************************************)
(* C15.  First boundary wins: for a line holding one or more " :", the     *)
(* last element of the parsed params is the text from the first " :" to    *)
(* the end of the line, verbatim, further " :" included.                   *)
(***************************************************************************)
BoundaryAt(line, i) == line[i] = " " /\ line[i + 1] = ":"

C15_FirstBoundaryWins ==
    pc \in {"handle", "respond"}
        => \A i \in 1..(Len(RawMessage) - 1) :
              (/\ BoundaryAt(RawMessage, i)
               /\ \A j \in 1..(i - 1) : ~BoundaryAt(RawMessage, j))
                 => /\ Msg.params # <<>>
                    /\ Msg.params[Len(Msg.params)]
                          = SubSeq(RawMessage, i + 2, Len(RawMessage))

C15_Witness ==
    /\ pc = "respond"
    /\ Cardinality({i \in 1..(Len(RawMessage) - 1) : BoundaryAt(RawMessage, i)}) = 2
    /\ Msg.params[Len(Msg.params)] = <<"x", " ", ":", "y">>

(***************************************************************************)
(* C18.  One transmission is one protocol line: every write is a message   *)
(* followed by exactly one CR LF pair, and the message (NICK, USER, PONG   *)
(* or JOIN) holds no CR and no LF itself, whatever line the peer sent.     *)
(***************************************************************************)
NoLineBreak(s) == \A j \in 1..Len(s) : s[j] \notin {"\r", "\n"}

C18_OneLinePerWrite ==
    /\ \A i \in 1..Len(wire) :
          /\ Len(wire[i]) >= 2
          /\ SubSeq(wire[i], Len(wire[i]) - 1, Len(wire[i])) = <<"\r", "\n">>
          /\ NoLineBreak(SubSeq(wire[i], 1, Len(wire[i]) - 2))
    /\ (pc = "respond" /\ response # None) => NoLineBreak(response[1])

C18_Witness ==
    /\ pc = "read"
    /\ nread = 1
    /\ ~NoLineBreak(stream[1])
    /\ stream[1][1] = "PING"
    /\ Len(wire) = 3

(***************************************************************************)
(* C19.  Dispatch is history-independent: the outgoing command is a        *)
(* function of the line in hand and the configuration alone, whatever      *)
(* lines were handled before; every 001 yields the same JOIN, and the      *)
(* configuration is never modified.                                        *)
(***************************************************************************)
C19_HistoryIndependent ==
    /\ config = DefaultConfig
    /\ pc = "respond" => response = Reply(stream[nread], DefaultConfig)

C19_Witness ==
    /\ pc = "respond"
    /\ nread >= 2
    /\ IsWelcome(stream[nread - 1])
    /\ IsWelcome(stream[nread])
    /\ response = Some(<<"JOIN", " ", "#general">>)

(***************************************************************************)
(* C20.  Every transmission after the handshake is a reply to the line     *)
(* just read: a write after NICK and USER is made in the iteration of the  *)
(* line read last and is the outgoing command that line calls for, a JOIN  *)
(* only for a 001 line and a PONG only for a PING line, and the writes     *)
(* after the handshake never outnumber the lines read.                     *)
(***************************************************************************)
C20_RepliesOnly ==
    /\ [](Len(wire) > 2 => Len(wire) - 2 <= nread)
    /\ [][(Len(wire) >= 2 /\ wire' # wire)
            => /\ pc = "respond"
               /\ nread >= 1
               /\ nread' = nread
               /\ Reply(stream[nread], config) # None
               /\ wire' = Append(wire, Reply(stream[nread], config)[1] \o CRLF)
               /\ wire'[Len(wire')][1] = "JOIN" => Msg.command = <<"001">>
               /\ wire'[Len(wire')][1] = "PONG" => Msg.command = <<"PING">>]_vars

C20_Witness ==
    /\ pc = "read"
    /\ nread = 3
    /\ Len(wire) = 5
    /\ wire[3][1] = "PONG"
    /\ wire[4][1] = "JOIN"

====
